---- MODULE Spec2Model ----
(***************************************************************************)
(* A model of pplib (src/src/lib.rs): the Ppm pixel grid, its bounds-      *)
(* checked accessors, the P6 decoder Ppm::from_bytes and the encoder       *)
(* Ppm::to_bytes.                                                          *)
(*                                                                         *)
(* Bytes are the integers 0..255, a byte slice is a sequence of them and   *)
(* a Color is the tuple <<red, green, blue>>.  Option values are           *)
(* sequences: None is << >> and Some(v) is <<v>>.  An operation that can   *)
(* fail yields a record whose kind is "Ok", "Err" (a returned Error) or    *)
(* "Panic" (the process aborts: an index out of range or a remainder by    *)
(* zero).  usize arithmetic is modelled on the naturals: every number the  *)
(* bounded inputs produce is far below 2^64.                               *)
(***************************************************************************)
EXTENDS Integers, Sequences, FiniteSets, TLC

VARIABLES
    bytes,      \* codec: the byte slice handed to Ppm::from_bytes
    result,     \* codec: what Ppm::from_bytes(bytes) returned
    bytes2,     \* codec: a second byte slice (re-encoded, or with comments added)
    result2,    \* codec: what Ppm::from_bytes(bytes2) returned
    added,      \* codec: the comment lines the caller added to get bytes2
    pc,         \* codec: position of the caller
    ppm,        \* grid: the caller's Ppm value, None before it has one
    ret         \* grid: the last operation, its arguments, its return value and
                \*       the grid it was applied to

vars == <<bytes, result, bytes2, result2, added, pc, ppm, ret>>

(***************************************************************************)
(* Bounds of the model.                                                    *)
(***************************************************************************)
MaxArea == 4        \* grids have width*height <= MaxArea
MaxComments == 1    \* comment lines an input holds / a caller adds

(***************************************************************************)
(* Program constants.                                                      *)
(***************************************************************************)
INVALID_SIGNATURE == "Invalid signature!"
INVALID_FORMAT == "Invalid file format!"
UNEXPECTED_EOF == "Unexpected end of file!"

LF == 10
HASH == 35
SP == 32
SIGNATURE == <<80, 54>>
DEFAULT_COLOR_DEPTH == 255

None == << >>
Some(v) == <<v>>

Ok(v) == [kind |-> "Ok", ppm |-> v]
Err(message) == [kind |-> "Err", message |-> message]
Panic == [kind |-> "Panic"]

Color_new(red, green, blue) == <<red, green, blue>>

BLACK == Color_new(0, 0, 0)

(***************************************************************************)
(* Standard-library functions the codec calls.                             *)
(***************************************************************************)

\* [T]::starts_with
starts_with(s, prefix) ==
    /\ Len(s) >= Len(prefix)
    /\ SubSeq(s, 1, Len(prefix)) = prefix

\* bytes[i..].iter().position(|b| 0xA.eq(b)): the offset from i (0-based) of
\* the first line feed at or after i.
position(s, i) ==
    LET hits == {p \in 0..(Len(s) - i - 1) : s[i + p + 1] = LF}
    IN  IF hits = {} THEN None
        ELSE Some(CHOOSE p \in hits : \A q \in hits : p <= q)

\* String::from_utf8_lossy: an ASCII byte is its own character; whatever
\* lies outside ASCII decodes to characters that are no digit, sign or
\* space (U+FFFD where the bytes are no valid UTF-8), 65533 here.
from_utf8_lossy(chunk) ==
    [k \in 1..Len(chunk) |-> IF chunk[k] < 128 THEN chunk[k] ELSE 65533]

\* str::split_once(' '): the text before and after the first delimiter.
split_once(s, delim) ==
    LET hits == {k \in 1..Len(s) : s[k] = delim}
    IN  IF hits = {} THEN None
        ELSE LET k == CHOOSE p \in hits : \A q \in hits : p <= q
             IN  Some(<<SubSeq(s, 1, k - 1), SubSeq(s, k + 1, Len(s))>>)

RECURSIVE digits_value(_, _)
digits_value(s, acc) ==
    IF s = << >> THEN acc
    ELSE digits_value(Tail(s), acc * 10 + (Head(s) - 48))

\* str::parse::<usize>: an optional '+' (43), then one or more of '0'..'9'
\* (48..57) and nothing else.
parse_usize(s) ==
    LET d == IF s # << >> /\ Head(s) = 43 THEN Tail(s) ELSE s
    IN  IF d = << >> \/ \E k \in 1..Len(d) : d[k] \notin 48..57 THEN None
        ELSE Some(digits_value(d, 0))

\* usize::to_string: the decimal digits, most significant first, no sign and
\* no leading zero.
RECURSIVE to_string(_)
to_string(n) ==
    IF n < 10 THEN <<48 + n>>
    ELSE Append(to_string(n \div 10), 48 + (n % 10))

(***************************************************************************)
(* Ppm                                                                     *)
(***************************************************************************)

\* mutant of new: the buffer is sized height + width
new_sum(width, height) ==
    [width |-> width,
     height |-> height,
     color_depth |-> DEFAULT_COLOR_DEPTH,
     pixels |-> [k \in 1..(height + width) |-> BLACK]]

new(width, height) ==
    [width |-> width,
     height |-> height,
     color_depth |-> DEFAULT_COLOR_DEPTH,
     pixels |-> [k \in 1..(height * width) |-> BLACK]]

\* mutant of is_comment: only a line that is '#' alone is a comment
is_comment_bare(chunk) == chunk = <<HASH>>

\* a line of the header that starts with '#'
is_comment(chunk) == starts_with(chunk, <<HASH>>)

\* mutant of signature_ok: the line only has to start with "P6"
signature_ok_prefix(chunk) == starts_with(chunk, SIGNATURE)

\* the signature line is exactly "P6"
signature_ok(chunk) == chunk = SIGNATURE

\* The header loop of from_bytes from cursor i in header state next, with
\* the dimensions read so far.  It ends in an Err, or in "Scanned" with the
\* cursor after the last line it consumed.
RECURSIVE scan(_, _, _, _)
scan(s, i, next, size) ==
    LET pos == position(s, i)
    IN  IF pos = None
        THEN [kind |-> "Scanned", i |-> i, size |-> size, color_depth |-> None]
        ELSE
          LET chunk == SubSeq(s, i + 1, i + pos[1])
              j == i + pos[1] + 1
          IN  IF is_comment(chunk) THEN scan(s, j, next, size)
              ELSE IF next = 0 THEN
                IF ~signature_ok(chunk) THEN Err(INVALID_SIGNATURE)
                ELSE scan(s, j, 1, size)
              ELSE IF next = 1 THEN
                LET dimensions == from_utf8_lossy(chunk)
                    pair == split_once(dimensions, SP)
                IN  IF pair = None THEN Err(UNEXPECTED_EOF)
                    ELSE
                      LET width == parse_usize(pair[1][1])
                          height == parse_usize(pair[1][2])
                      IN  IF width = None THEN Err(INVALID_FORMAT)
                          ELSE IF height = None THEN Err(INVALID_FORMAT)
                          ELSE scan(s, j, 2, <<width, height>>)
              ELSE
                LET color_depth == parse_usize(from_utf8_lossy(chunk))
                IN  IF color_depth = None THEN Err(INVALID_FORMAT)
                    ELSE [kind |-> "Scanned", i |-> j, size |-> size,
                          color_depth |-> color_depth]

\* mutant of body_index: column-major
body_index_transposed(x, y, width) == x * width + y

\* the flat index a body triple is stored at
body_index(x, y, width) == y * width + x

\* The body loop of from_bytes: iteration i of 0..data.len()/3 with the
\* running column x and row y.
RECURSIVE fill(_, _, _, _, _)
fill(data, grid, i, x, y) ==
    IF i >= Len(data) \div 3 THEN Ok(grid)
    ELSE IF i > 0 /\ grid.width = 0 THEN Panic      \* i % width with width = 0
    ELSE
      LET wrap == i > 0 /\ i % grid.width = 0
          y1 == IF wrap THEN y + 1 ELSE y
          x1 == IF wrap THEN 0 ELSE x
          k == body_index(x1, y1, grid.width)
          color == Color_new(data[i * 3 + 1], data[i * 3 + 2], data[i * 3 + 3])
      IN  IF k >= Len(grid.pixels) THEN Panic       \* ppm.pixels[..] out of range
          ELSE fill(data, [grid EXCEPT !.pixels[k + 1] = color], i + 1, x1 + 1, y1)

\* mutant of unresolved: the other message
unresolved_eof == Err(UNEXPECTED_EOF)

\* the header never resolved: the scan ran out of line feeds
unresolved == Err(INVALID_FORMAT)

from_bytes(s) ==
    LET h == scan(s, 0, 0, <<None, None>>)
    IN  IF h.kind = "Err" THEN h
        ELSE IF h.size[1] # None /\ h.size[2] # None /\ h.color_depth # None
        THEN LET data == SubSeq(s, h.i + 1, Len(s))
                 grid == [new(h.size[1][1], h.size[2][1])
                            EXCEPT !.color_depth = h.color_depth[1]]
             IN  fill(data, grid, 0, 0, 0)
        ELSE unresolved

\* mutant of pixel_bytes: blue first
pixel_bytes_bgr(color) == <<color[3], color[2], color[1]>>

\* the three bytes to_bytes writes for one pixel
pixel_bytes(color) == <<color[1], color[2], color[3]>>

\* The pixel loops of to_bytes: row y, column x, the bytes written so far.
RECURSIVE write_pixels(_, _, _, _)
write_pixels(grid, x, y, out) ==
    IF y >= grid.height THEN [kind |-> "Ok", bytes |-> out]
    ELSE IF x >= grid.width THEN write_pixels(grid, 0, y + 1, out)
    ELSE
      LET k == y * grid.width + x
      IN  IF k >= Len(grid.pixels) THEN Panic       \* self.pixels[..] out of range
          ELSE write_pixels(grid, x + 1, y, out \o pixel_bytes(grid.pixels[k + 1]))

to_bytes(grid) ==
    write_pixels(grid, 0, 0,
        SIGNATURE \o <<LF>>
        \o to_string(grid.width) \o <<SP>> \o to_string(grid.height) \o <<LF>>
        \o to_string(grid.color_depth) \o <<LF>>)

\* self.pixels.get(index)
get(pixels, index) ==
    IF index < Len(pixels) THEN Some(pixels[index + 1]) ELSE None

pixel_at(grid, x, y) == get(grid.pixels, y * grid.width + x)

\* the Error set_pixel builds: the message text and the four numbers it
\* formats into it
out_of_bounds(x, y, width, height) ==
    Err(<<"Pixel position ({},{}) is out of bounds for image size ({}, {})!",
          x, y, width, height>>)

\* set_pixel: the grid afterwards and the Result returned
set_pixel(grid, x, y, color) ==
    LET index == y * grid.width + x
    IN  IF get(grid.pixels, index) # None
        THEN [ppm |-> [grid EXCEPT !.pixels[index + 1] = color],
              value |-> [kind |-> "Ok"]]
        ELSE [ppm |-> grid,
              value |-> out_of_bounds(x, y, grid.width, grid.height)]

set_pixels(grid, pixels) == [grid EXCEPT !.pixels = pixels]

set_width(grid, width) == [grid EXCEPT !.width = width]

set_height(grid, height) == [grid EXCEPT !.height = height]

set_color_depth(grid, color_depth) == [grid EXCEPT !.color_depth = color_depth]

(***************************************************************************)
(* The byte slices a caller decodes.  A slice is up to three header lines, *)
(* each ended by a line feed, comment lines before them, and a tail: the   *)
(* body when all three lines are there, the unterminated rest otherwise.   *)
(***************************************************************************)

Dims == {d \in (0..MaxArea) \X (0..MaxArea) : d[1] * d[2] <= MaxArea}

\* "P6", "P3", the empty line, "P6 "
SigLines == {SIGNATURE, <<80, 51>>, << >>, <<80, 54, 32>>}

\* "<w> <h>", and "2", "2 x", "+1 01"
DimLines ==
    {to_string(d[1]) \o <<SP>> \o to_string(d[2]) : d \in Dims}
    \cup {<<50>>, <<50, 32, 120>>, <<43, 49, 32, 48, 49>>}

\* "255", "7", "x"
DepthLines == {to_string(DEFAULT_COLOR_DEPTH), <<55>>, <<120>>}

\* "#P6"
CommentLine == <<HASH>> \o SIGNATURE

\* Body bytes: every value may occur, line feed and '#' among them.
Pattern == <<LF, HASH, 0, 255, 80, 54, SP>>

Stream(off, n) == [k \in 1..n |-> Pattern[((k - 1 + off) % Len(Pattern)) + 1]]

\* up to one triple more than the largest grid holds
MaxBody == 3 * (MaxArea + 1)

Tails == {Stream(off, n) : off \in {0, 2}, n \in 0..MaxBody}

RECURSIVE CommentBlock(_)
CommentBlock(n) ==
    IF n = 0 THEN << >> ELSE CommentLine \o <<LF>> \o CommentBlock(n - 1)

\* cs[k] comment lines before header line k; the first nf header lines
Part(cs, fields, nf, k) ==
    IF k > nf + 1 THEN << >>
    ELSE CommentBlock(cs[k]) \o (IF k <= nf THEN fields[k] \o <<LF>> ELSE << >>)

Input(cs, fields, nf, tail) ==
    Part(cs, fields, nf, 1) \o Part(cs, fields, nf, 2) \o Part(cs, fields, nf, 3)
    \o tail

Placements ==
    {cs \in [1..3 -> 0..MaxComments] : cs[1] + cs[2] + cs[3] <= MaxComments}

Inputs ==
    {Input(cs, <<s, d, c>>, nf, t) :
        cs \in Placements, s \in SigLines, d \in DimLines, c \in DepthLines,
        nf \in 0..3, t \in Tails}

(***************************************************************************)
(* The codec: a caller decodes a byte slice, and then either encodes the   *)
(* grid and decodes that, or adds comment lines to the header and decodes  *)
(* again.                                                                  *)
(***************************************************************************)

GridIdle == ppm = None /\ ret = None

Init ==
    /\ bytes \in Inputs
    /\ result = None
    /\ bytes2 = None
    /\ result2 = None
    /\ added = 0
    /\ pc = "start"
    /\ GridIdle

Decode ==
    /\ pc = "start"
    /\ result' = from_bytes(bytes)
    /\ pc' = "decoded"
    /\ UNCHANGED <<bytes, bytes2, result2, added, ppm, ret>>

Encode ==
    /\ pc = "decoded"
    /\ result.kind = "Ok"
    /\ LET e == to_bytes(result.ppm)
       IN  IF e.kind = "Ok"
           THEN bytes2' = e.bytes /\ pc' = "encoded"
           ELSE bytes2' = bytes2 /\ pc' = "aborted"
    /\ UNCHANGED <<bytes, result, result2, added, ppm, ret>>

Redecode ==
    /\ pc = "encoded"
    /\ result2' = from_bytes(bytes2)
    /\ pc' = "redecoded"
    /\ UNCHANGED <<bytes, result, bytes2, added, ppm, ret>>

\* The starts (0-based) of the lines of the header of s: the start of s and
\* the byte after each line feed, before the end of the color-depth line.
HeaderLineStarts(s) ==
    LET h == scan(s, 0, 0, <<None, None>>)
    IN  IF h.kind # "Scanned" \/ h.color_depth = None THEN {}
        ELSE {p \in 0..(h.i - 1) : p = 0 \/ s[p] = LF}

AddComment ==
    /\ pc \in {"decoded", "commenting"}
    /\ result.kind = "Ok"
    /\ added < MaxComments
    /\ LET cur == IF pc = "decoded" THEN bytes ELSE bytes2
       IN  \E p \in HeaderLineStarts(cur) :
              bytes2' = SubSeq(cur, 1, p) \o CommentLine \o <<LF>>
                        \o SubSeq(cur, p + 1, Len(cur))
    /\ added' = added + 1
    /\ pc' = "commenting"
    /\ UNCHANGED <<bytes, result, result2, ppm, ret>>

DecodeCommented ==
    /\ pc = "commenting"
    /\ result2' = from_bytes(bytes2)
    /\ pc' = "recommented"
    /\ UNCHANGED <<bytes, result, bytes2, added, ppm, ret>>

Next ==
    \/ Decode
    \/ Encode
    \/ Redecode
    \/ AddComment
    \/ DecodeCommented

Spec == Init /\ [][Next]_vars

(***************************************************************************)
(* What a byte slice declares, read off the slice line by line.            *)
(***************************************************************************)

\* the lines of s from offset i (0-based) that end in a line feed
RECURSIVE TerminatedLines(_, _)
TerminatedLines(s, i) ==
    LET pos == position(s, i)
    IN  IF pos = None THEN << >>
        ELSE <<[text |-> SubSeq(s, i + 1, i + pos[1]), next |-> i + pos[1] + 1]>>
             \o TerminatedLines(s, i + pos[1] + 1)

StartsWithHash(line) == line.text # << >> /\ line.text[1] = HASH

\* the terminated lines that are not comments
NonCommentLines(s) ==
    SelectSeq(TerminatedLines(s, 0), LAMBDA line : ~StartsWithHash(line))

DimensionsOf(text) ==
    LET pair == split_once(text, SP)
    IN  IF pair = None THEN None
        ELSE LET w == parse_usize(pair[1][1])
                 h == parse_usize(pair[1][2])
             IN  IF w = None \/ h = None THEN None ELSE Some(<<w[1], h[1]>>)

\* signature, dimensions and color depth lines are there and well formed
WellFormedHeader(s) ==
    LET l == NonCommentLines(s)
    IN  /\ Len(l) >= 3
        /\ l[1].text = SIGNATURE
        /\ DimensionsOf(l[2].text) # None
        /\ parse_usize(l[3].text) # None

DeclaredWidth(s) == DimensionsOf(NonCommentLines(s)[2].text)[1][1]
DeclaredHeight(s) == DimensionsOf(NonCommentLines(s)[2].text)[1][2]
DeclaredDepth(s) == parse_usize(NonCommentLines(s)[3].text)[1]
BodyOf(s) == SubSeq(s, NonCommentLines(s)[3].next + 1, Len(s))

\* triple k (0-based) of a body
Triple(body, k) == <<body[3 * k + 1], body[3 * k + 2], body[3 * k + 3]>>

\* the header stops before a terminated color-depth line, and the lines it
\* does hold are a signature line and a dimensions line
TruncatedHeader(s) ==
    LET l == NonCommentLines(s)
    IN  /\ Len(l) < 3
        /\ Len(l) >= 1 => l[1].text = SIGNATURE
        /\ Len(l) >= 2 => DimensionsOf(l[2].text) # None

(***************************************************************************)
(* Claims about the codec.                                                 *)
(***************************************************************************)

\* C1: a grid decoded from a well-formed slice whose body is exactly
\* width*height triples encodes to a slice that decodes, without error, to a
\* grid of the same width, height, color_depth and pixels.
RoundTrip ==
    (/\ pc = "redecoded"
     /\ WellFormedHeader(bytes)
     /\ Len(BodyOf(bytes)) = 3 * DeclaredWidth(bytes) * DeclaredHeight(bytes))
    => /\ result2.kind = "Ok"
       /\ result2.ppm.width = result.ppm.width
       /\ result2.ppm.height = result.ppm.height
       /\ result2.ppm.color_depth = result.ppm.color_depth
       /\ result2.ppm.pixels = result.ppm.pixels

\* a 2x2 grid whose body holds a line feed and a '#' went round
RoundTripWitness ==
    /\ pc = "redecoded"
    /\ WellFormedHeader(bytes)
    /\ DeclaredWidth(bytes) = 2 /\ DeclaredHeight(bytes) = 2
    /\ Len(BodyOf(bytes)) = 12
    /\ BodyOf(bytes)[1] = LF /\ BodyOf(bytes)[2] = HASH
    /\ result2.kind = "Ok"

\* C4: a slice with a well-formed header decodes to a grid, whatever the
\* length of its body, and the first width*height triples of a body that
\* holds that many fill the grid.
ExcessBodyIgnored ==
    (pc = "decoded" /\ WellFormedHeader(bytes))
    => /\ result.kind = "Ok"
       /\ LET n == DeclaredWidth(bytes) * DeclaredHeight(bytes)
          IN  Len(BodyOf(bytes)) >= 3 * n
              => result.ppm.pixels = [k \in 1..n |-> Triple(BodyOf(bytes), k - 1)]

\* C6: when the first line that is no comment is not exactly "P6", the
\* decode fails with the invalid-signature error.
SignatureRejection ==
    (/\ pc = "decoded"
     /\ NonCommentLines(bytes) # << >>
     /\ NonCommentLines(bytes)[1].text # SIGNATURE)
    => result = Err(INVALID_SIGNATURE)

\* "P6 " after a comment line is rejected
SignatureRejectionWitness ==
    /\ pc = "decoded"
    /\ starts_with(bytes, CommentLine \o <<LF>>)
    /\ NonCommentLines(bytes) # << >>
    /\ NonCommentLines(bytes)[1].text = SIGNATURE \o <<SP>>
    /\ result = Err(INVALID_SIGNATURE)

\* C7, as stated: a slice whose header stops before a terminated
\* color-depth line fails with the unexpected-end-of-file error.
TruncatedHeaderIsEof ==
    (pc = "decoded" /\ TruncatedHeader(bytes))
    => result = Err(UNEXPECTED_EOF)

\* C7, amended: such a slice fails with the invalid-format error.
TruncatedHeaderIsInvalidFormat ==
    (pc = "decoded" /\ TruncatedHeader(bytes))
    => result = Err(INVALID_FORMAT)

\* signature and dimensions lines and an unterminated color depth
TruncatedHeaderWitness ==
    /\ pc = "decoded"
    /\ TruncatedHeader(bytes)
    /\ Len(NonCommentLines(bytes)) = 2
    /\ bytes[Len(bytes)] # LF
    /\ result = Err(INVALID_FORMAT)

\* C8: comment lines added before the lines of the header of a slice that
\* decodes do not change what it decodes to.
CommentTolerance ==
    pc = "recommented" => result2 = result

\* a comment line was added to a slice that decodes to a grid with pixels
CommentToleranceWitness ==
    /\ pc = "recommented"
    /\ added >= 1
    /\ result.kind = "Ok"
    /\ result.ppm.pixels # << >>
    /\ result.ppm.pixels[1] # BLACK
    /\ result2.kind = "Ok"

\* C9: a body of n < width*height*3 bytes decodes to width*height pixels,
\* the first n \div 3 of them the triples of the body and the others black.
Truncation ==
    (/\ pc = "decoded"
     /\ WellFormedHeader(bytes)
     /\ Len(BodyOf(bytes)) < 3 * DeclaredWidth(bytes) * DeclaredHeight(bytes))
    => /\ result.kind = "Ok"
       /\ result.ppm.pixels =
            [k \in 1..(DeclaredWidth(bytes) * DeclaredHeight(bytes)) |->
                IF k - 1 < Len(BodyOf(bytes)) \div 3
                THEN Triple(BodyOf(bytes), k - 1)
                ELSE BLACK]

\* a 2x2 grid got two triples and two bytes more
TruncationWitness ==
    /\ pc = "decoded"
    /\ WellFormedHeader(bytes)
    /\ DeclaredWidth(bytes) = 2 /\ DeclaredHeight(bytes) = 2
    /\ Len(BodyOf(bytes)) = 8
    /\ result.kind = "Ok"
    /\ result.ppm.pixels[2] # BLACK
    /\ result.ppm.pixels[3] = BLACK

(***************************************************************************)
(* The grid: a caller holds a Ppm made by Ppm::new or decoded by           *)
(* Ppm::from_bytes and calls its methods.  ret records the last call: the  *)
(* method, its arguments, what it returned and the grid it was called on.  *)
(***************************************************************************)

\* the color a caller writes: no channel equals another or the default's
Colors == {Color_new(1, 2, 3)}

\* coordinates on and beyond every grid of the model
Coords == 0..MaxArea

\* "7"
SmallDepth == <<55>>

\* well-formed slices: a header without comments and a body of any length
GridInputs ==
    {Input([k \in 1..3 |-> 0],
           <<SIGNATURE, to_string(d[1]) \o <<SP>> \o to_string(d[2]), SmallDepth>>,
           3, Stream(0, n)) :
        d \in Dims, n \in 0..MaxBody}

CodecIdle ==
    /\ bytes = None
    /\ result = None
    /\ bytes2 = None
    /\ result2 = None
    /\ added = 0
    /\ pc = "grid"

Called(op, args, value, pre) ==
    [op |-> op, args |-> args, value |-> value, pre |-> pre]

InitGrid ==
    /\ CodecIdle
    /\ \/ \E d \in Dims :
            /\ ppm = new(d[1], d[2])
            /\ ret = Called("new", d, None, None)
       \/ \E b \in GridInputs :
            /\ from_bytes(b).kind = "Ok"
            /\ ppm = from_bytes(b).ppm
            /\ ret = Called("from_bytes", b, None, None)

PixelAt ==
    \E x \in Coords, y \in Coords :
        /\ ret' = Called("pixel_at", <<x, y>>, pixel_at(ppm, x, y), ppm)
        /\ UNCHANGED <<bytes, result, bytes2, result2, added, pc, ppm>>

SetPixel ==
    \E x \in Coords, y \in Coords, color \in Colors :
        LET r == set_pixel(ppm, x, y, color)
        IN  /\ ppm' = r.ppm
            /\ ret' = Called("set_pixel", <<x, y, color>>, r.value, ppm)
            /\ UNCHANGED <<bytes, result, bytes2, result2, added, pc>>

ToBytes ==
    /\ ret' = Called("to_bytes", None, to_bytes(ppm), ppm)
    /\ UNCHANGED <<bytes, result, bytes2, result2, added, pc, ppm>>

NextGrid ==
    \/ PixelAt
    \/ SetPixel
    \/ ToBytes

SpecGrid == InitGrid /\ [][NextGrid]_vars

(***************************************************************************)
(* Claims about the grid.                                                  *)
(***************************************************************************)

\* C2: pixel_at(x, y) with x >= width or y >= height returns None.
PixelAtOutsideIsAbsent ==
    (/\ ret.op = "pixel_at"
     /\ \/ ret.args[1] >= ret.pre.width
        \/ ret.args[2] >= ret.pre.height)
    => ret.value = None

\* C3: set_pixel(x, y, color) with x >= width or y >= height returns an
\* error and leaves the grid as it was.
SetPixelOutsideFails ==
    (/\ ret.op = "set_pixel"
     /\ \/ ret.args[1] >= ret.pre.width
        \/ ret.args[2] >= ret.pre.height)
    => /\ ret.value.kind = "Err"
       /\ ppm = ret.pre

\* C10: a grid made by new or from_bytes holds width*height pixels, and
\* set_pixel, failing or not, keeps that and the width, height and
\* color_depth.
BufferLength ==
    /\ Len(ppm.pixels) = ppm.width * ppm.height
    /\ ret.op = "set_pixel"
       => /\ ppm.width = ret.pre.width
          /\ ppm.height = ret.pre.height
          /\ ppm.color_depth = ret.pre.color_depth
          /\ Len(ppm.pixels) = Len(ret.pre.pixels)

\* a set_pixel changed a pixel of a decoded 2x2 grid
BufferLengthWitness ==
    /\ ret.op = "set_pixel"
    /\ ret.value.kind = "Ok"
    /\ ppm # ret.pre
    /\ ppm.color_depth # DEFAULT_COLOR_DEPTH
    /\ ppm.width = 2 /\ ppm.height = 2

(***************************************************************************)
(* The grid with every public mutator: set_pixels, set_width, set_height   *)
(* and set_color_depth store what they are given.                          *)
(***************************************************************************)

\* the buffers a caller hands to set_pixels
Buffers == {[k \in 1..n |-> color] : n \in 0..MaxArea, color \in Colors}

Depths == {DEFAULT_COLOR_DEPTH, parse_usize(SmallDepth)[1]}

SetPixels ==
    \E pixels \in Buffers :
        /\ ppm' = set_pixels(ppm, pixels)
        /\ ret' = Called("set_pixels", pixels, None, ppm)
        /\ UNCHANGED <<bytes, result, bytes2, result2, added, pc>>

SetWidth ==
    \E width \in Coords :
        /\ ppm' = set_width(ppm, width)
        /\ ret' = Called("set_width", width, None, ppm)
        /\ UNCHANGED <<bytes, result, bytes2, result2, added, pc>>

SetHeight ==
    \E height \in Coords :
        /\ ppm' = set_height(ppm, height)
        /\ ret' = Called("set_height", height, None, ppm)
        /\ UNCHANGED <<bytes, result, bytes2, result2, added, pc>>

SetColorDepth ==
    \E color_depth \in Depths :
        /\ ppm' = set_color_depth(ppm, color_depth)
        /\ ret' = Called("set_color_depth", color_depth, None, ppm)
        /\ UNCHANGED <<bytes, result, bytes2, result2, added, pc>>

NextAll ==
    \/ SetPixel
    \/ SetPixels
    \/ SetWidth
    \/ SetHeight
    \/ SetColorDepth
    \/ ToBytes

SpecAll == InitGrid /\ [][NextAll]_vars

\* C5: to_bytes returns a byte sequence, without an abort, after any
\* sequence of the public operations.
ToBytesNeverFails ==
    ret.op = "to_bytes" => ret.value.kind = "Ok"

====
